---- MODULE Spec2Model ----
(***************************************************************************)
(* Model of app.py: the /upload endpoint (upload_file) and the publication *)
(* workflow (publish_file_to_github) against a GitHub-like remote host.    *)
(*                                                                         *)
(* Strings are sequences of atomic tokens: "%" and the placeholder words   *)
(* are single tokens, so str.replace on a placeholder is a sub-sequence    *)
(* replacement.  None is the empty option <<>>, a present value s is the   *)
(* option <<s>>.                                                           *)
(***************************************************************************)
EXTENDS Integers, Sequences, FiniteSets, TLC

\* ---------------------------------------------------------------- bounds
MaxInstallations == 2
MaxReposPerInstallation == 2
MaxExternal == 1
MaxTemplateLen == 5
MaxNameLen == 3

\* ------------------------------------------------------------- option type
None == <<>>
Some(s) == <<s>>

\* ------------------------------------------------------ template rendering
\* s.replace(old, new): left to right, non overlapping
RECURSIVE ReplaceFrom(_, _, _, _)
ReplaceFrom(s, old, new, i) ==
    IF i > Len(s) THEN <<>>
    ELSE IF i + Len(old) - 1 <= Len(s) /\ SubSeq(s, i, i + Len(old) - 1) = old
         THEN new \o ReplaceFrom(s, old, new, i + Len(old))
         ELSE <<s[i]>> \o ReplaceFrom(s, old, new, i + 1)

\* a replace that takes any %name% for the placeholder
RECURSIVE ReplaceAnyFrom(_, _, _, _)
ReplaceAnyFrom(s, old, new, i) ==
    IF i > Len(s) THEN <<>>
    ELSE IF i + 2 <= Len(s) /\ s[i] = "%" /\ s[i + 1] # "%" /\ s[i + 2] = "%"
         THEN new \o ReplaceAnyFrom(s, old, new, i + 3)
         ELSE <<s[i]>> \o ReplaceAnyFrom(s, old, new, i + 1)

Replace_any_name(s, old, new) == ReplaceAnyFrom(s, old, new, 1)

Replace(s, old, new) == ReplaceFrom(s, old, new, 1)

PH_vocabulary_name == <<"%", "vocabulary_name", "%">>
PH_timestamp == <<"%", "timestamp", "%">>
PH_datetime == <<"%", "datetime", "%">>
PH_date == <<"%", "date", "%">>

\* request times (datetime.datetime.now()); D1 and D2 lie in the same minute
Dates == { [Y |-> "2024", m |-> "01", d |-> "02", H |-> "03", M |-> "04", S |-> "00"],
           [Y |-> "2024", m |-> "01", d |-> "02", H |-> "03", M |-> "04", S |-> "30"] }

\* date.strftime('%Y%m%d%H%M')
FmtTimestamp(date) == <<date.Y, date.m, date.d, date.H, date.M>>
\* date.strftime('%d/%m/%Y')
FmtDate(date) == <<date.d, "/", date.m, "/", date.Y>>
\* date.strftime('%d/%m/%Y %H:%M')
FmtDatetime(date) == FmtDate(date) \o <<" ", date.H, ":", date.M>>

\* the chained replace of one entry of res
Render(s, vocabulary_name, date) ==
    Replace(Replace(Replace(Replace(s, PH_vocabulary_name, vocabulary_name),
                            PH_timestamp, FmtTimestamp(date)),
                    PH_datetime, FmtDatetime(date)),
            PH_date, FmtDate(date))

\* ------------------------------------------------------------ configuration
endpoint_secret == <<"s3cret">>

DefaultTemplates ==
    [ branch   |-> <<"%", "timestamp", "%", "_", "%", "vocabulary_name", "%">>,
      message  |-> <<"Commit into ", "%", "vocabulary_name", "%", " vocabulary">>,
      pr_title |-> <<"Release: ", "%", "date", "%", " - ", "%", "vocabulary_name", "%">>,
      pr_desc  |-> <<"Description of the release">> ]

\* an operator-configured GH_COMMIT_BRANCH_TEMPLATE
NameOnlyTemplates == [DefaultTemplates EXCEPT !.branch = <<"%", "vocabulary_name", "%">>]

TemplateSets == {DefaultTemplates, NameOnlyTemplates}

\* ------------------------------------------------------------- remote host
RepoIds == {"repoA", "repoB"}

\* repo.full_name
full_name == [id \in RepoIds |->
                 IF id = "repoA" THEN <<"org/", "animals">> ELSE <<"org/", "other">>]

NoRepo == "none"
MainBranch == <<"main">>
NoSha == ""
InitialSha == "abc123"
ExternalSha == "def456"

\* values a request can carry
VocabularyNames == {<<>>, <<"animals">>, <<"main">>}
RepoFullNames == { <<"org/", "animals">>, <<"org/", "unknown">>,
                   <<"org/", "%", "vocabulary_name", "%">> }
UploadFilenames == { <<"up.rdf">>, <<"%", "date", "%", ".rdf">> }
AuthorizationHeaders == { None, Some(<<"Bearer ">> \o endpoint_secret),
                          Some(<<"Bearer ", "wrong">>) }
ContentTypes == { None, Some(<<"application/rdf+xml">>) }

Paths == UploadFilenames \cup { v \o <<".rdf">> : v \in VocabularyNames }

\* blob sha of the uploaded bytes
UploadSha(r) == "upload-" \o r

Injective(s) == \A i, j \in DOMAIN s : s[i] = s[j] => i = j

SeqsUpTo(S, n) == UNION { [1..k -> S] : k \in 0..n }

\* what installation.get_repos() can enumerate
RepoLists == { s \in SeqsUpTo(RepoIds, MaxReposPerInstallation) : Injective(s) }

RECURSIVE Flatten(_)
Flatten(ss) == IF ss = <<>> THEN <<>> ELSE Head(ss) \o Flatten(Tail(ss))

\* what github_integration.get_installations() can enumerate: a repository
\* belongs to one account, hence to at most one installation
InstallationConfigs ==
    { c \in SeqsUpTo(RepoLists, MaxInstallations) : Injective(Flatten(c)) }

Requests == {"r1"}

VARIABLES
    templates,      \* github_commit_branch_tpl, ... (module globals)
    installations,  \* remote: installations of the app and their repositories
    refs,           \* remote: repo -> (branch name -> commit sha)
    commits,        \* remote: commit sha (index) -> tree (path -> blob sha)
    pulls,          \* remote: pull requests opened, in order
    extCount,       \* pushes of other actors so far
    calls,          \* history: remote calls issued, in order
    pc,             \* per request: the call it is about to issue
    req,            \* per request: the HTTP request
    file_name,      \* per request: local file_name
    res,            \* per request: dict res
    repo,           \* per request: local repo
    inst_i,         \* per request: position of the outer for loop
    sb,             \* per request: sb.commit.sha
    old_file,       \* per request: old_file.sha
    status,         \* per request: HTTP status of the response, 0 while running
    error,          \* per request: the exception e handed to abort(500, e)
    response        \* per request: the UploadFileResponse

remoteVars == <<installations, refs, commits, pulls, extCount>>
localVars == <<req, file_name, res, repo, inst_i, sb, old_file, response>>
vars == <<templates, installations, refs, commits, pulls, extCount, calls, pc, req,
          file_name, res, repo, inst_i, sb, old_file, status, error, response>>

NoRequest == [ authorization |-> None, content_type |-> None, vocabulary_name |-> None,
               repo_full_name |-> None, file |-> None,
               date |-> CHOOSE d \in Dates : d.S = "00" ]

EmptyRes == [ repository |-> <<>>, filename |-> <<>>, branch |-> <<>>, commit_msg |-> <<>>,
              pr_title |-> <<>>, pr_description |-> <<>>, pr_url |-> <<>> ]

NoResponse == [ success |-> FALSE, original_filename |-> <<>>, repo_full_name |-> <<>>,
                pull_request_branch |-> <<>>, pushed_filename |-> <<>>,
                pull_request_url |-> <<>> ]

\* a branch left by an earlier publication of "animals" in the same minute
LeftoverBranch(tpl) == Render(tpl.branch, <<"animals">>, NoRequest.date)

InitRemote ==
    /\ installations \in InstallationConfigs
    /\ \E present \in BOOLEAN, leftover \in BOOLEAN :
          /\ commits = [ i \in 1..Cardinality(RepoIds) |->
                           [ p \in Paths |-> IF present THEN InitialSha ELSE NoSha ] ]
          /\ refs = [ id \in RepoIds |->
                        LET c == IF id = "repoA" THEN 1 ELSE 2
                        IN  (MainBranch :> c) @@
                            (IF leftover THEN LeftoverBranch(templates) :> c ELSE <<>>) ]
    /\ pulls = <<>>
    /\ extCount = 0

InitRequests(R) ==
    /\ calls = <<>>
    /\ pc = [r \in R |-> "idle"]
    /\ req = [r \in R |-> NoRequest]
    /\ file_name = [r \in R |-> <<>>]
    /\ res = [r \in R |-> EmptyRes]
    /\ repo = [r \in R |-> NoRepo]
    /\ inst_i = [r \in R |-> 0]
    /\ sb = [r \in R |-> 0]
    /\ old_file = [r \in R |-> NoSha]
    /\ status = [r \in R |-> 0]
    /\ error = [r \in R |-> "none"]
    /\ response = [r \in R |-> NoResponse]

Init ==
    /\ templates \in TemplateSets
    /\ InitRemote
    /\ InitRequests(Requests)

\* ------------------------------------------------------------------ helpers
Call(r, op, id, branch, path, sha, commit, result) ==
    [ req |-> r, op |-> op, repo |-> id, branch |-> branch, path |-> path,
      sha |-> sha, commit |-> commit, result |-> result ]

Log(c) == calls' = Append(calls, c)

\* abort(code, ...): the request ends with this HTTP status
abort(r, code, e) ==
    /\ status' = [status EXCEPT ![r] = code]
    /\ error' = [error EXCEPT ![r] = e]
    /\ pc' = [pc EXCEPT ![r] = "done"]

\* except Exception as e: abort(500, e)
ExceptStatus(e) == 500

Except(r, e) == abort(r, ExceptStatus(e), e)

Goto(r, label) ==
    /\ pc' = [pc EXCEPT ![r] = label]
    /\ UNCHANGED <<status, error>>

\* provided_secret != f"Bearer {endpoint_secret}"
AuthFails(provided_secret) ==
    provided_secret = None \/ provided_secret[1] # <<"Bearer ">> \o endpoint_secret

\* the guard of the first 400: vocabulary_name is None
VocabularyNameMissing(args) == args.vocabulary_name = None

\* the guard of the second 400, as written: it tests vocabulary_name again
RepoFullNameMissing(args) == args.vocabulary_name = None

\* file_name of upload_file; the body stream is named after the vocabulary
FileNameOf(q) ==
    IF q.file # None THEN q.file[1] ELSE q.vocabulary_name[1] \o <<".rdf">>

\* the dict res after the rendering loop
RenderRes(tpl, fname, vocabulary_name, repo_full_name, date) ==
    [ repository     |-> Render(repo_full_name, vocabulary_name, date),
      filename       |-> Render(fname, vocabulary_name, date),
      branch         |-> Render(tpl.branch, vocabulary_name, date),
      commit_msg     |-> Render(tpl.message, vocabulary_name, date),
      pr_title       |-> Render(tpl.pr_title, vocabulary_name, date),
      pr_description |-> Render(tpl.pr_desc, vocabulary_name, date),
      pr_url         |-> Render(<<>>, vocabulary_name, date) ]

\* for repo in installation.get_repos(): if repo.full_name == wanted: repo = repo
RECURSIVE ScanRepos(_, _, _)
ScanRepos(cur, list, wanted) ==
    IF list = <<>> THEN cur
    ELSE LET x == Head(list)
         IN  ScanRepos(IF full_name[x] = wanted THEN x ELSE x, Tail(list), wanted)

create_response(filename, gh_filename, gh_repo, branch, pull_request_url) ==
    [ success |-> TRUE, original_filename |-> filename, repo_full_name |-> gh_repo,
      pull_request_branch |-> branch, pushed_filename |-> gh_filename,
      pull_request_url |-> pull_request_url ]

\* remote: the tree of a branch
TreeOf(id, branch) == commits[refs[id][branch]]

\* remote: html_url of the n-th pull request
HtmlUrl(id, n) == <<"https://github.com/">> \o full_name[id] \o <<"/pull/", ToString(n)>>

\* ------------------------------------------------------------------ actions
\* upload_file up to the first remote call of publish_file_to_github
upload_file(r) ==
    /\ pc[r] = "idle"
    /\ \E a \in AuthorizationHeaders, ct \in ContentTypes,
          v \in {None} \cup {Some(x) : x \in VocabularyNames},
          n \in {None} \cup {Some(x) : x \in RepoFullNames},
          f \in {None} \cup {Some(x) : x \in UploadFilenames},
          d \in Dates :
        LET q == [ authorization |-> a, content_type |-> ct, vocabulary_name |-> v,
                   repo_full_name |-> n, file |-> f, date |-> d ]
        IN  /\ req' = [req EXCEPT ![r] = q]
            /\ IF ct = None
               THEN \* str + None in the debug log line
                    /\ abort(r, 500, "TypeError")
                    /\ UNCHANGED <<file_name, res>>
               ELSE IF AuthFails(a)
               THEN /\ abort(r, 401, "abort401")
                    /\ UNCHANGED <<file_name, res>>
               ELSE IF VocabularyNameMissing(q)
               THEN /\ abort(r, 400, "abort400")
                    /\ UNCHANGED <<file_name, res>>
               ELSE IF RepoFullNameMissing(q)
               THEN /\ abort(r, 400, "abort400")
                    /\ UNCHANGED <<file_name, res>>
               ELSE /\ file_name' = [file_name EXCEPT ![r] = FileNameOf(q)]
                    /\ IF n = None
                       THEN \* None.replace in the rendering loop
                            /\ Except(r, "AttributeError")
                            /\ UNCHANGED res
                       ELSE /\ res' = [res EXCEPT ![r] =
                                         RenderRes(templates, FileNameOf(q), v[1], n[1], d)]
                            /\ Goto(r, "get_installations")
    /\ UNCHANGED <<templates, remoteVars, calls, repo, inst_i, sb, old_file, response>>

\* if repo is None: abort(401, ...), inside the try block
AfterSearch(r, found) ==
    IF found = NoRepo THEN Except(r, "HTTP401") ELSE Goto(r, "get_branch")

get_installations(r) ==
    /\ pc[r] = "get_installations"
    /\ \E result \in {"ok", "fault"} :
        /\ Log(Call(r, "get_installations", NoRepo, <<>>, <<>>, NoSha, 0, result))
        /\ IF result = "fault"
           THEN /\ Except(r, "GithubException")
                /\ UNCHANGED inst_i
           ELSE IF installations = <<>>
           THEN /\ AfterSearch(r, repo[r])
                /\ UNCHANGED inst_i
           ELSE /\ Goto(r, "get_repos")
                /\ inst_i' = [inst_i EXCEPT ![r] = 1]
    /\ UNCHANGED <<templates, remoteVars, req, file_name, res, repo, sb, old_file, response>>

get_repos(r) ==
    /\ pc[r] = "get_repos"
    /\ \E result \in {"ok", "fault"} :
        /\ Log(Call(r, "get_repos", NoRepo, <<>>, <<>>, NoSha, 0, result))
        /\ IF result = "fault"
           THEN /\ Except(r, "GithubException")
                /\ UNCHANGED <<inst_i, repo>>
           ELSE LET found == ScanRepos(repo[r], installations[inst_i[r]], res[r].repository)
                IN  /\ repo' = [repo EXCEPT ![r] = found]
                    /\ IF inst_i[r] < Len(installations)
                       THEN /\ inst_i' = [inst_i EXCEPT ![r] = @ + 1]
                            /\ Goto(r, "get_repos")
                       ELSE /\ AfterSearch(r, found)
                            /\ UNCHANGED inst_i
    /\ UNCHANGED <<templates, remoteVars, req, file_name, res, sb, old_file, response>>

\* sb = repo.get_branch('main')
get_branch(r) ==
    /\ pc[r] = "get_branch"
    /\ \E result \in {"ok", "fault"} :
        IF result = "ok"
        THEN /\ Log(Call(r, "get_branch", repo[r], MainBranch, <<>>, NoSha,
                         refs[repo[r]][MainBranch], "ok"))
             /\ sb' = [sb EXCEPT ![r] = refs[repo[r]][MainBranch]]
             /\ Goto(r, "create_git_ref")
        ELSE /\ Log(Call(r, "get_branch", repo[r], MainBranch, <<>>, NoSha, 0, "fault"))
             /\ Except(r, "GithubException")
             /\ UNCHANGED sb
    /\ UNCHANGED <<templates, remoteVars, req, file_name, res, repo, inst_i, old_file, response>>

\* a create_git_ref whose "already exists" answer is ignored
RefFailure_ignore_exists(r, result) ==
    IF result = "ref_exists" THEN Goto(r, "get_contents") ELSE Except(r, "GithubException")

\* what follows a create_git_ref that raised
RefFailure(r, result) == Except(r, IF result = "ref_exists" THEN "RefExists" ELSE "GithubException")

\* a host whose ref creation is not atomic: it also answers "created" for a ref
\* that is already there, and leaves that ref as it is
create_git_ref_force(r) ==
    /\ pc[r] = "create_git_ref"
    /\ \E result \in {"ok", "fault"} :
        /\ Log(Call(r, "create_git_ref", repo[r], res[r].branch, <<>>, NoSha, sb[r], result))
        /\ IF result = "ok"
           THEN /\ refs' = [refs EXCEPT ![repo[r]] = @ @@ (res[r].branch :> sb[r])]
                /\ Goto(r, "get_contents")
           ELSE /\ RefFailure(r, result)
                /\ UNCHANGED refs
    /\ UNCHANGED <<templates, installations, commits, pulls, extCount, localVars>>

\* repo.create_git_ref('refs/heads/' + res['branch'], sha=sb.commit.sha)
create_git_ref(r) ==
    /\ pc[r] = "create_git_ref"
    /\ \E result \in {"ok", "ref_exists", "fault"} :
        /\ result = "ok" => res[r].branch \notin DOMAIN refs[repo[r]]
        /\ result = "ref_exists" => res[r].branch \in DOMAIN refs[repo[r]]
        /\ Log(Call(r, "create_git_ref", repo[r], res[r].branch, <<>>, NoSha, sb[r], result))
        /\ IF result = "ok"
           THEN /\ refs' = [refs EXCEPT ![repo[r]] = @ @@ (res[r].branch :> sb[r])]
                /\ Goto(r, "get_contents")
           ELSE /\ RefFailure(r, result)
                /\ UNCHANGED refs
    /\ UNCHANGED <<templates, installations, commits, pulls, extCount, localVars>>

\* remote: a commit on branch that sets path to sha
Commit(id, branch, path, sha) ==
    /\ commits' = Append(commits, [TreeOf(id, branch) EXCEPT ![path] = sha])
    /\ refs' = [refs EXCEPT ![id] = [@ EXCEPT ![branch] = Len(commits) + 1]]

\* a bare except around the lookup: every failure counts as "file absent"
LookupFailure_bare_except(r, result) == Goto(r, "create_file")

\* what follows a get_contents that raised: only UnknownObjectException is
\* caught by the inner except
LookupFailure(r, result) ==
    IF result = "not_found" THEN Goto(r, "create_file") ELSE Except(r, "GithubException")

\* old_file = repo.get_contents(file_name): the default branch, no ref given
get_contents(r) ==
    /\ pc[r] = "get_contents"
    /\ \E result \in {"ok", "not_found", "fault"} :
        LET sha == TreeOf(repo[r], MainBranch)[file_name[r]]
        IN  /\ result = "ok" => sha # NoSha
            /\ result = "not_found" => sha = NoSha
            /\ Log(Call(r, "get_contents", repo[r], MainBranch, file_name[r],
                        IF result = "ok" THEN sha ELSE NoSha, 0, result))
            /\ IF result = "ok"
               THEN /\ old_file' = [old_file EXCEPT ![r] = sha]
                    /\ Goto(r, "update_file")
               ELSE /\ LookupFailure(r, result)
                    /\ UNCHANGED old_file
    /\ UNCHANGED <<templates, remoteVars, req, file_name, res, repo, inst_i, sb, response>>

\* update_file that sends the blob sha of the upload instead of the one read
UpdateSha_of_upload(r) == UploadSha(r)

\* the sha argument of update_file
UpdateSha(r) == old_file[r]

\* a file write that leaves the branch argument out: the host writes to main
WriteBranch_default(r) == MainBranch

\* the branch argument of update_file and create_file: branch=res['branch']
WriteBranch(r) == res[r].branch

\* an update_file whose conflict answer is logged and stepped over
UpdateFailure_swallow_conflict(r, result) ==
    IF result = "not_found" THEN Goto(r, "create_file")
    ELSE IF result = "sha_mismatch" THEN Goto(r, "create_pull")
    ELSE Except(r, "GithubException")

\* what follows an update_file that raised
UpdateFailure(r, result) ==
    IF result = "not_found" THEN Goto(r, "create_file")
    ELSE Except(r, IF result = "sha_mismatch" THEN "ShaMismatch" ELSE "GithubException")

\* repo.update_file(file_name, res['commit_msg'], content, old_file.sha, branch=res['branch'])
\* the host's answer to a sha given for a path the branch does not have is
\* either a conflict or a not-found
update_file(r) ==
    /\ pc[r] = "update_file"
    /\ \E result \in {"ok", "sha_mismatch", "not_found", "fault"} :
        LET cur == TreeOf(repo[r], WriteBranch(r))[file_name[r]]
        IN  /\ result = "ok" => cur = UpdateSha(r)
            /\ result = "sha_mismatch" => cur # UpdateSha(r)
            /\ result = "not_found" => cur = NoSha
            /\ Log(Call(r, "update_file", repo[r], WriteBranch(r), file_name[r],
                        UpdateSha(r), 0, result))
            /\ IF result = "ok"
               THEN /\ Commit(repo[r], WriteBranch(r), file_name[r], UploadSha(r))
                    /\ Goto(r, "create_pull")
               ELSE /\ UpdateFailure(r, result)
                    /\ UNCHANGED <<refs, commits>>
    /\ UNCHANGED <<templates, installations, pulls, extCount, localVars>>

\* repo.create_file(file_name, res['commit_msg'], content, branch=res['branch'])
create_file(r) ==
    /\ pc[r] = "create_file"
    /\ \E result \in {"ok", "sha_required", "fault"} :
        LET cur == TreeOf(repo[r], WriteBranch(r))[file_name[r]]
        IN  /\ result = "ok" => cur = NoSha
            /\ result = "sha_required" => cur # NoSha
            /\ Log(Call(r, "create_file", repo[r], WriteBranch(r), file_name[r],
                        NoSha, 0, result))
            /\ IF result = "ok"
               THEN /\ Commit(repo[r], WriteBranch(r), file_name[r], UploadSha(r))
                    /\ Goto(r, "create_pull")
               ELSE /\ Except(r, "GithubException")
                    /\ UNCHANGED <<refs, commits>>
    /\ UNCHANGED <<templates, installations, pulls, extCount, localVars>>

\* a create_pull failure that is swallowed: res is returned with an empty pr_url
PullFailure_swallowed(r) ==
    /\ Goto(r, "return")
    /\ UNCHANGED <<refs, commits>>

\* a create_pull failure that is compensated: the new branch is deleted
PullFailure_rollback(r) ==
    /\ Except(r, "GithubException")
    /\ refs' = [refs EXCEPT ![repo[r]] =
                  [ b \in DOMAIN @ \ {res[r].branch} |-> @[b] ]]
    /\ UNCHANGED commits

\* what follows a create_pull that raised: the exception leaves the try block,
\* no call to the remote is made on the way out
PullFailure(r) ==
    /\ Except(r, "GithubException")
    /\ UNCHANGED <<refs, commits>>

\* pr = repo.create_pull(base='main', head=res['branch'], ...); res['pr_url'] = pr.html_url
create_pull(r) ==
    /\ pc[r] = "create_pull"
    /\ \E result \in {"ok", "fault"} :
        /\ Log(Call(r, "create_pull", repo[r], res[r].branch, <<>>, NoSha, 0, result))
        /\ IF result = "ok"
           THEN /\ pulls' = Append(pulls, [ repo |-> repo[r], base |-> MainBranch,
                                            head |-> res[r].branch,
                                            title |-> res[r].pr_title,
                                            body |-> res[r].pr_description,
                                            html_url |-> HtmlUrl(repo[r], Len(pulls) + 1) ])
                /\ res' = [res EXCEPT ![r].pr_url = HtmlUrl(repo[r], Len(pulls) + 1)]
                /\ Goto(r, "return")
                /\ UNCHANGED <<refs, commits>>
           ELSE /\ PullFailure(r)
                /\ UNCHANGED <<pulls, res>>
    /\ UNCHANGED <<templates, installations, extCount, req, file_name,
                   repo, inst_i, sb, old_file, response>>

\* return res, and the rest of upload_file
publish_return(r) ==
    /\ pc[r] = "return"
    /\ response' = [response EXCEPT ![r] =
                      create_response(file_name[r], res[r].filename, res[r].repository,
                                      res[r].branch, res[r].pr_url)]
    /\ abort(r, 200, "none")
    /\ UNCHANGED <<templates, remoteVars, calls, req, file_name, res, repo, inst_i, sb,
                   old_file>>

\* another actor pushes to main of the repository of a request that has read the
\* tip of main and not yet looked the file up (pushes at other moments are
\* covered by the initial states)
ExternalPush(r) ==
    /\ extCount < MaxExternal
    /\ pc[r] \in {"create_git_ref", "get_contents"}
    /\ Commit(repo[r], MainBranch, file_name[r], ExternalSha)
    /\ extCount' = extCount + 1
    /\ UNCHANGED <<templates, installations, pulls, calls, pc, status, error, localVars>>

Next ==
    \/ \E r \in DOMAIN pc : upload_file(r)
    \/ \E r \in DOMAIN pc : get_installations(r)
    \/ \E r \in DOMAIN pc : get_repos(r)
    \/ \E r \in DOMAIN pc : get_branch(r)
    \/ \E r \in DOMAIN pc : create_git_ref(r)
    \/ \E r \in DOMAIN pc : get_contents(r)
    \/ \E r \in DOMAIN pc : update_file(r)
    \/ \E r \in DOMAIN pc : create_file(r)
    \/ \E r \in DOMAIN pc : create_pull(r)
    \/ \E r \in DOMAIN pc : publish_return(r)
    \/ \E r \in DOMAIN pc : ExternalPush(r)

Spec == Init /\ [][Next]_vars

\* ----------------------------------------------------------------- claims
\* positions in the call history of the calls of request r to one of ops
CallsBy(r, ops) == { i \in DOMAIN calls : calls[i].req = r /\ calls[i].op \in ops }

RepoOps == {"get_branch", "create_git_ref", "get_contents", "update_file", "create_file",
            "create_pull"}
RemoteOps == RepoOps \cup {"get_installations", "get_repos"}

Succeeded(r, op) == \E i \in CallsBy(r, {op}) : calls[i].result = "ok"
Failed(r, op) == \E i \in CallsBy(r, {op}) : calls[i].result # "ok"

\* the first enumerated repository whose full name is name, NoRepo if there is none
FirstMatch(name) ==
    LET all == Flatten(installations)
        hits == { i \in DOMAIN all : full_name[all[i]] = name }
    IN  IF hits = {} THEN NoRepo
        ELSE all[CHOOSE i \in hits : \A j \in hits : i <= j]

\* the whole enumeration of installations and repositories went through
SearchCompleted(r) ==
    /\ Succeeded(r, "get_installations")
    /\ Cardinality({ i \in CallsBy(r, {"get_repos"}) : calls[i].result = "ok" })
           = Len(installations)

Authenticated(r) == ~AuthFails(req[r].authorization) /\ req[r].content_type # None

\* an authenticated request with a non-empty vocabulary_name and a repo_full_name
WellFormed(r) ==
    /\ Authenticated(r)
    /\ req[r].vocabulary_name \notin {None, Some(<<>>)}
    /\ req[r].repo_full_name # None

\* C1: a result record is returned, and a success response built, only when the
\* create_pull call of the request succeeded; a request whose create_pull failed
\* after a successful file write ends with an error and no response record
C1_AllOrNothing ==
    \A r \in DOMAIN pc :
        /\ (pc[r] = "return" \/ status[r] = 200 \/ response[r] # NoResponse)
              => Succeeded(r, "create_pull")
        /\ Failed(r, "create_pull")
              => /\ pc[r] = "done"
                 /\ status[r] >= 400
                 /\ response[r] = NoResponse

C1_Witness ==
    \E r \in DOMAIN pc :
        /\ Succeeded(r, "create_git_ref")
        /\ Succeeded(r, "update_file") \/ Succeeded(r, "create_file")
        /\ Failed(r, "create_pull")
        /\ status[r] = 500

\* C2: when some visible repository has the requested full name, every remote
\* operation of the request goes to the first enumerated repository of that name
C2_FirstMatchUsed ==
    \A r \in DOMAIN pc :
        (WellFormed(r) /\ FirstMatch(req[r].repo_full_name[1]) # NoRepo)
            => \A i \in CallsBy(r, RepoOps) :
                   /\ calls[i].repo = FirstMatch(req[r].repo_full_name[1])
                   /\ full_name[calls[i].repo] = req[r].repo_full_name[1]

\* C3: when no visible repository has the requested full name, the request raises
\* the not-authorized signal once the search is over and issues no branch, file or
\* pull-request call
C3_NoMatchNoCalls ==
    \A r \in DOMAIN pc :
        ( /\ WellFormed(r)
          /\ pc[r] # "idle"
          /\ FirstMatch(req[r].repo_full_name[1]) = NoRepo
          /\ FirstMatch(res[r].repository) = NoRepo )
            => /\ CallsBy(r, RepoOps) = {}
               /\ SearchCompleted(r) => pc[r] = "done" /\ error[r] = "HTTP401"

\* C4: a search that ends without a repository answers 401, not 500
C4_NotAuthorizedIs401 ==
    \A r \in DOMAIN pc :
        (WellFormed(r) /\ SearchCompleted(r) /\ repo[r] = NoRepo /\ pc[r] = "done")
            => status[r] = 401

\* the ref created by the request
NewBranchOf(r) ==
    LET i == CHOOSE i \in CallsBy(r, {"create_git_ref"}) : calls[i].result = "ok"
    IN  calls[i].branch

\* C5: after the branch was created, a lookup that reports not-found is followed
\* by a create_file on the new branch and by no update_file; a lookup that returns
\* the file is followed by an update_file on the new branch with the sha read
C5_UpsertBranches ==
    \A r \in DOMAIN pc :
        \A i \in CallsBy(r, {"get_contents"}) :
            /\ Succeeded(r, "create_git_ref")
            /\ calls[i].result = "not_found"
                  => /\ CallsBy(r, {"update_file"}) = {}
                     /\ \/ pc[r] = "create_file" /\ CallsBy(r, {"create_file"}) = {}
                        \/ /\ Cardinality(CallsBy(r, {"create_file"})) = 1
                           /\ \A j \in CallsBy(r, {"create_file"}) :
                                 /\ j > i
                                 /\ calls[j].repo = calls[i].repo
                                 /\ calls[j].branch = NewBranchOf(r)
                                 /\ calls[j].path = calls[i].path
            /\ calls[i].result = "ok"
                  => \/ pc[r] = "update_file" /\ CallsBy(r, {"update_file"}) = {}
                     \/ /\ Cardinality(CallsBy(r, {"update_file"})) = 1
                        /\ \A j \in CallsBy(r, {"update_file"}) :
                              /\ j > i
                              /\ calls[j].repo = calls[i].repo
                              /\ calls[j].branch = NewBranchOf(r)
                              /\ calls[j].path = calls[i].path
                              /\ calls[j].sha = calls[i].sha
                              /\ calls[j].sha # NoSha

C5_Witness ==
    \E r \in DOMAIN pc :
        /\ \E i \in CallsBy(r, {"get_contents"}) :
              calls[i].result = "ok" /\ calls[i].sha = InitialSha
        /\ \E j \in CallsBy(r, {"update_file"}) :
              calls[j].result = "ok" /\ calls[j].sha = InitialSha

\* C6: a lookup that fails with anything but not-found ends the request with
\* status 500, and no create_file, update_file or create_pull is issued
C6_LookupFaultAborts ==
    \A r \in DOMAIN pc :
        (\E i \in CallsBy(r, {"get_contents"}) : calls[i].result = "fault")
            => /\ pc[r] = "done"
               /\ status[r] = 500
               /\ CallsBy(r, {"create_file", "update_file", "create_pull"}) = {}

C6_Witness ==
    \E r \in DOMAIN pc :
        /\ \E i \in CallsBy(r, {"get_contents"}) : calls[i].result = "fault"
        /\ TreeOf(repo[r], MainBranch)[file_name[r]] = NoSha
        /\ status[r] = 500

RefExistsAnswered(r) ==
    \E i \in CallsBy(r, {"create_git_ref"}) : calls[i].result = "ref_exists"

C7_Aborted ==
    \A r \in DOMAIN pc :
        RefExistsAnswered(r)
            => /\ pc[r] = "done"
               /\ status[r] >= 400
               /\ response[r] = NoResponse
               /\ CallsBy(r, {"get_contents", "update_file", "create_file",
                              "create_pull"}) = {}

C7_RefKept ==
    \A r \in DOMAIN pc :
        (~RefExistsAnswered(r) /\ RefExistsAnswered(r)')
            => /\ refs' = refs
               /\ commits' = commits
               /\ pulls' = pulls

\* C7: a create_git_ref answered "already exists" ends the request with an error,
\* leaves every ref as it was, and is followed by no lookup, file write or
\* pull-request call of that request
C7_RefExistsAborts == []C7_Aborted /\ [][C7_RefKept]_vars

C7_Witness ==
    \E r \in DOMAIN pc :
        /\ RefExistsAnswered(r)
        /\ res[r].branch \in DOMAIN refs[repo[r]]
        /\ res[r].branch # MainBranch
        /\ pc[r] = "done"

\* C8: a branch-already-exists or sha-mismatch answer of the host gives the caller
\* an outcome other than the one every other remote failure gives
C8_ConflictDistinguishable ==
    \A r \in DOMAIN pc :
        ( /\ WellFormed(r)
          /\ res[r].branch # MainBranch
          /\ pc[r] = "done"
          /\ error[r] \in {"RefExists", "ShaMismatch"} )
            => status[r] # ExceptStatus("GithubException")

\* C9: an authenticated request with an empty vocabulary_name is answered 400 and
\* no remote call is issued for it
C9_EmptyVocabularyRejected ==
    \A r \in DOMAIN pc :
        ( /\ pc[r] # "idle"
          /\ Authenticated(r)
          /\ req[r].vocabulary_name = Some(<<>>)
          /\ req[r].repo_full_name # None )
            => /\ CallsBy(r, RemoteOps) = {}
               /\ pc[r] = "done" => status[r] = 400

\* C10: an authenticated request with a non-empty vocabulary_name and no repo_full_name is
\* answered 400, not 500, and no remote call is issued for it
C10_MissingRepoIs400 ==
    \A r \in DOMAIN pc :
        ( /\ pc[r] # "idle"
          /\ Authenticated(r)
          /\ req[r].vocabulary_name \notin {None, Some(<<>>)}
          /\ req[r].repo_full_name = None )
            => /\ CallsBy(r, RemoteOps) = {}
               /\ pc[r] = "done" => status[r] = 400

\* a call that raised, the lookup's not-found aside
IsFailure(c) == c.result # "ok" /\ ~(c.op = "get_contents" /\ c.result = "not_found")

\* C11: within a request get_branch, create_git_ref, get_contents and create_pull
\* are each called at most once, at most one file write is issued, and no remote
\* call follows a failed one (the lookup's not-found aside)
C11_NoRetryAbortOnFailure ==
    \A r \in DOMAIN pc :
        WellFormed(r)
            => /\ \A op \in {"get_branch", "create_git_ref", "get_contents", "create_pull"} :
                     Cardinality(CallsBy(r, {op})) <= 1
               /\ Cardinality(CallsBy(r, {"update_file", "create_file"})) <= 1
               /\ \A i, j \in CallsBy(r, RemoteOps) : IsFailure(calls[i]) => j <= i

\* --------------------------------------------- two requests at the same time
RaceRequests == {"r1", "r2"}

\* both requests reach the one repository the app is installed on
InitRace ==
    /\ templates \in TemplateSets
    /\ installations = << <<"repoA">> >>
    /\ \E present \in BOOLEAN :
          commits = [ i \in 1..Cardinality(RepoIds) |->
                        [ p \in Paths |-> IF present THEN InitialSha ELSE NoSha ] ]
    /\ refs = [ id \in RepoIds |-> (MainBranch :> (IF id = "repoA" THEN 1 ELSE 2)) ]
    /\ pulls = <<>>
    /\ extCount = 0
    /\ InitRequests(RaceRequests)

\* the requests of the race: authenticated, for org/animals, the body stream as
\* the file, "r1" received at second 00 and "r2" at second 30 of the same minute
RaceInput(r) ==
    /\ Authenticated(r)
    /\ req[r].vocabulary_name \in {Some(<<"animals">>), Some(<<"main">>)}
    /\ req[r].repo_full_name = Some(<<"org/", "animals">>)
    /\ req[r].file = None
    /\ req[r].date.S = (IF r = "r1" THEN "00" ELSE "30")

NextRace ==
    \/ \E r \in DOMAIN pc : upload_file(r) /\ RaceInput(r)'
    \/ \E r \in DOMAIN pc : get_installations(r)
    \/ \E r \in DOMAIN pc : get_repos(r)
    \/ \E r \in DOMAIN pc : get_branch(r)
    \/ \E r \in DOMAIN pc : create_git_ref(r)
    \/ \E r \in DOMAIN pc : get_contents(r)
    \/ \E r \in DOMAIN pc : update_file(r)
    \/ \E r \in DOMAIN pc : create_file(r)
    \/ \E r \in DOMAIN pc : create_pull(r)
    \/ \E r \in DOMAIN pc : publish_return(r)

SpecRace == InitRace /\ [][NextRace]_vars

PullsWithHead(id, branch) ==
    { k \in DOMAIN pulls : pulls[k].repo = id /\ pulls[k].head = branch }

\* C12: of two requests on the same repository with the same rendered branch name
\* at most one creates the ref; the other one's create_git_ref fails, it ends with
\* an error without a file write or a pull-request call, and at most one pull
\* request has that head
C12_BranchRace ==
    \A r1, r2 \in DOMAIN pc :
        ( /\ r1 # r2
          /\ pc[r1] # "idle" /\ pc[r2] # "idle"
          /\ res[r1].branch = res[r2].branch )
            => /\ ~(Succeeded(r1, "create_git_ref") /\ Succeeded(r2, "create_git_ref"))
               /\ (Succeeded(r1, "create_git_ref") /\ CallsBy(r2, {"create_git_ref"}) # {})
                     => /\ pc[r2] = "done"
                        /\ status[r2] >= 400
                        /\ response[r2] = NoResponse
                        /\ CallsBy(r2, {"get_contents", "update_file", "create_file",
                                        "create_pull"}) = {}
               /\ \A id \in RepoIds : Cardinality(PullsWithHead(id, res[r1].branch)) <= 1

C12_Witness ==
    \E r1, r2 \in DOMAIN pc :
        /\ r1 # r2
        /\ req[r1].date # req[r2].date
        /\ res[r1].branch = res[r2].branch
        /\ res[r1].branch # MainBranch
        /\ Succeeded(r1, "create_git_ref")
        /\ error[r2] = "RefExists"
        /\ status[r1] = 200
        /\ status[r2] = 500

HasPercent(str) == \E i \in DOMAIN str : str[i] = "%"

\* C13: the record of a successful request names the repository asked for, the
\* path that was written, the ref that was created and the pull request opened
\* (stated here for repository names without a placeholder)
C13_ResultMatchesRemote ==
    \A r \in DOMAIN pc :
        (WellFormed(r) /\ status[r] = 200 /\ ~HasPercent(req[r].repo_full_name[1]))
            => /\ response[r].repo_full_name = req[r].repo_full_name[1]
               /\ \A i \in CallsBy(r, {"update_file", "create_file"}) :
                     calls[i].result = "ok" => response[r].pushed_filename = calls[i].path
               /\ response[r].pull_request_branch = NewBranchOf(r)
               /\ \E k \in PullsWithHead(repo[r], NewBranchOf(r)) :
                     response[r].pull_request_url = pulls[k].html_url

\* ------------------------------------------------- the rendering on its own
TemplateAlphabet == {"%", "date", "vocabulary_name", "x"}
NameAlphabet == {"%", "date"}

\* the rendering loop of publish_file_to_github, for a branch template and a
\* vocabulary name drawn from all short strings
InitRender ==
    /\ \E t \in SeqsUpTo(TemplateAlphabet, MaxTemplateLen) :
          templates = [DefaultTemplates EXCEPT !.branch = t]
    /\ installations = << <<"repoA">> >>
    /\ InitRemote
    /\ refs = [ id \in RepoIds |-> (MainBranch :> (IF id = "repoA" THEN 1 ELSE 2)) ]
    /\ commits[1][<<"up.rdf">>] = NoSha
    /\ calls = <<>>
    /\ pc = [r \in Requests |-> "render"]
    /\ \E v \in SeqsUpTo(NameAlphabet, MaxNameLen), d \in {x \in Dates : x.S = "00"} :
          req = [r \in Requests |->
                   [ authorization |-> Some(<<"Bearer ">> \o endpoint_secret),
                     content_type |-> Some(<<"application/rdf+xml">>),
                     vocabulary_name |-> Some(v),
                     repo_full_name |-> Some(<<"org/", "animals">>),
                     file |-> Some(<<"up.rdf">>), date |-> d ]]
    /\ file_name = [r \in Requests |-> <<"up.rdf">>]
    /\ res = [r \in Requests |-> EmptyRes]
    /\ repo = [r \in Requests |-> NoRepo]
    /\ inst_i = [r \in Requests |-> 0]
    /\ sb = [r \in Requests |-> 0]
    /\ old_file = [r \in Requests |-> NoSha]
    /\ status = [r \in Requests |-> 0]
    /\ error = [r \in Requests |-> "none"]
    /\ response = [r \in Requests |-> NoResponse]

\* res[...] = ...; for x in res: res[x] = res[x].replace(...)...
render(r) ==
    /\ pc[r] = "render"
    /\ res' = [res EXCEPT ![r] =
                 RenderRes(templates, file_name[r], req[r].vocabulary_name[1],
                           req[r].repo_full_name[1], req[r].date)]
    /\ Goto(r, "rendered")
    /\ UNCHANGED <<templates, remoteVars, calls, req, file_name, repo, inst_i, sb,
                   old_file, response>>

NextRender == \E r \in DOMAIN pc : render(r)

SpecRender == InitRender /\ [][NextRender]_vars

\* the four placeholders and their values, in the order of the source
Placeholders == <<PH_vocabulary_name, PH_timestamp, PH_datetime, PH_date>>

ValueOf(k, vocabulary_name, date) ==
    IF k = 1 THEN vocabulary_name
    ELSE IF k = 2 THEN FmtTimestamp(date)
    ELSE IF k = 3 THEN FmtDatetime(date)
    ELSE FmtDate(date)

Orders == { p \in [1..4 -> 1..4] : Injective(p) }

\* the four replacements applied in the order p
RECURSIVE RenderInOrder(_, _, _, _)
RenderInOrder(p, s, vocabulary_name, date) ==
    IF p = <<>> THEN s
    ELSE RenderInOrder(Tail(p),
                       Replace(s, Placeholders[Head(p)],
                               ValueOf(Head(p), vocabulary_name, date)),
                       vocabulary_name, date)

PlaceholderAt(s, i) ==
    { k \in 1..4 : i + 2 <= Len(s) /\ SubSeq(s, i, i + 2) = Placeholders[k] }

\* one pass over s that substitutes every placeholder it meets
RECURSIVE SimultaneousFrom(_, _, _, _)
SimultaneousFrom(s, vocabulary_name, date, i) ==
    IF i > Len(s) THEN <<>>
    ELSE IF PlaceholderAt(s, i) # {}
         THEN ValueOf(CHOOSE k \in PlaceholderAt(s, i) : TRUE, vocabulary_name, date)
                  \o SimultaneousFrom(s, vocabulary_name, date, i + 3)
         ELSE <<s[i]>> \o SimultaneousFrom(s, vocabulary_name, date, i + 1)

Simultaneous(s, vocabulary_name, date) == SimultaneousFrom(s, vocabulary_name, date, 1)

OrderIrrelevant(r) ==
    LET t == templates.branch
        v == req[r].vocabulary_name[1]
        d == req[r].date
    IN  /\ \A p \in Orders : RenderInOrder(p, t, v, d) = res[r].branch
        /\ Simultaneous(t, v, d) = res[r].branch

\* C14: for every template and vocabulary name the rendered string is
\* what the replacements give in any order, and what one simultaneous
\* substitution gives
C14_OrderIrrelevant ==
    \A r \in DOMAIN pc : pc[r] = "rendered" => OrderIrrelevant(r)

NoPlaceholder(s) == \A i \in DOMAIN s : PlaceholderAt(s, i) = {}

\* C15: a template without any of the four placeholders is rendered unchanged,
\* whatever the vocabulary name and the request time; %x% stays as it is
C15_PassThrough ==
    \A r \in DOMAIN pc :
        (pc[r] = "rendered" /\ NoPlaceholder(templates.branch))
            => res[r].branch = templates.branch

C15_Witness ==
    \E r \in DOMAIN pc :
        /\ pc[r] = "rendered"
        /\ templates.branch = <<"date", "%", "x", "%">>
        /\ req[r].vocabulary_name = Some(<<"date">>)
        /\ res[r].branch = <<"date", "%", "x", "%">>

\* a successful call of request r to one of ops, issued before position i
OkBefore(r, ops, i) == { j \in CallsBy(r, ops) : j < i /\ calls[j].result = "ok" }

\* C16: create_pull comes after a successful file write on the new branch, a file
\* write after a successful create_git_ref, create_git_ref after a successful
\* get_branch('main') whose commit sha it passes on, and get_branch after the
\* whole repository search
C16_StepOrder ==
    \A r \in DOMAIN pc :
        \A i \in CallsBy(r, RepoOps) :
            /\ calls[i].op = "create_pull"
                  => \E j \in OkBefore(r, {"update_file", "create_file"}, i) :
                        /\ calls[j].branch = calls[i].branch
                        /\ calls[j].repo = calls[i].repo
            /\ calls[i].op \in {"update_file", "create_file"}
                  => \E j \in OkBefore(r, {"create_git_ref"}, i) :
                        /\ calls[j].branch = calls[i].branch
                        /\ calls[j].repo = calls[i].repo
            /\ calls[i].op = "create_git_ref"
                  => \E j \in OkBefore(r, {"get_branch"}, i) :
                        /\ calls[j].branch = MainBranch
                        /\ calls[j].repo = calls[i].repo
                        /\ calls[i].commit = calls[j].commit
            /\ calls[i].op = "get_branch"
                  => /\ OkBefore(r, {"get_installations"}, i) # {}
                     /\ Cardinality(OkBefore(r, {"get_repos"}, i)) = Len(installations)

C16_Witness ==
    \E r \in DOMAIN pc :
        /\ status[r] = 200
        /\ extCount = 1
        /\ \E i \in CallsBy(r, {"create_git_ref"}) :
              /\ calls[i].result = "ok"
              /\ calls[i].commit # refs[repo[r]][MainBranch]
        /\ Len(installations) = 2

\* C17: when a file write or the create_pull fails after the branch was created,
\* the request ends with its error and the branch is still on the remote, at the
\* commit of the file write if the write succeeded and at the commit it was
\* created at otherwise; no call other than the listing, branch, file and pull-request operations is
\* ever issued
C17_NoCompensation ==
    /\ \A i \in 1..Len(calls) : calls[i].op \in RemoteOps
    /\ \A r \in DOMAIN pc :
          \A i \in CallsBy(r, {"create_git_ref"}) :
              (calls[i].result = "ok" /\ pc[r] = "done" /\ status[r] >= 400)
                 => LET id == calls[i].repo
                        branch == calls[i].branch
                        written == OkBefore(r, {"update_file", "create_file"},
                                            Len(calls) + 1)
                    IN  /\ branch \in DOMAIN refs[id]
                        /\ written # {}
                              => TreeOf(id, branch)[file_name[r]] = UploadSha(r)
                        /\ written = {} => refs[id][branch] = calls[i].commit

C17_Witness ==
    \E r \in DOMAIN pc :
        /\ pc[r] = "done"
        /\ status[r] = 500
        /\ Failed(r, "create_pull")
        /\ Succeeded(r, "update_file")
        /\ res[r].branch \in DOMAIN refs[repo[r]]
        /\ TreeOf(repo[r], res[r].branch)[file_name[r]] = UploadSha(r)

\* C18: a request whose Authorization header is missing or is not
\* 'Bearer <endpoint_secret>' ends with 401 and issues no remote call, whatever
\* its other headers and parameters are
C18_AuthGate ==
    \A r \in DOMAIN pc :
        (pc[r] # "idle" /\ AuthFails(req[r].authorization))
            => /\ pc[r] = "done"
               /\ status[r] = 401
               /\ CallsBy(r, RemoteOps) = {}

\* C19: whenever update_file is about to be issued, the sha it carries is the
\* file's sha on the new branch, and whenever create_file is about to be issued
\* the file is absent on the new branch, also when another actor has pushed to
\* main between the get_branch and the get_contents of the request
C19_RevisionConsistent ==
    \A r \in DOMAIN pc :
        /\ pc[r] = "update_file"
              => UpdateSha(r) = TreeOf(repo[r], res[r].branch)[file_name[r]]
        /\ pc[r] = "create_file"
              => TreeOf(repo[r], res[r].branch)[file_name[r]] = NoSha

\* every successful ref creation and file write of a request names a branch
\* other than main
C20_TargetsNewBranch ==
    \A i \in DOMAIN calls :
        (calls[i].op \in {"create_git_ref", "update_file", "create_file"}
            /\ calls[i].result = "ok")
                => calls[i].branch # MainBranch

\* a step that is not another actor's push leaves the ref of main of every
\* repository, and every commit made so far, as they were
C20_MainKept ==
    extCount' = extCount
        => /\ \A id \in RepoIds : refs'[id][MainBranch] = refs[id][MainBranch]
           /\ \A c \in DOMAIN commits : c \in DOMAIN commits' /\ commits'[c] = commits[c]

\* C20: no request changes the ref of main or the files on it, also when the
\* rendered branch name is 'main'; every ref creation and file write that takes
\* effect targets the newly created branch
C20_MainNeverWritten == []C20_TargetsNewBranch /\ [][C20_MainKept]_vars

C20_Witness ==
    \E r \in DOMAIN pc :
        /\ res[r].branch = MainBranch
        /\ \E i \in CallsBy(r, {"create_git_ref"}) :
              calls[i].branch = MainBranch /\ calls[i].result = "ref_exists"
        /\ pc[r] = "done"
        /\ CallsBy(r, {"update_file", "create_file", "create_pull"}) = {}
        /\ refs[repo[r]][MainBranch] = sb[r]

====
